---- MODULE Spec2Model ----
(***************************************************************************)
(* CH9329 serial protocol translator of the Pico HID firmware:             *)
(* the frame parser (ch9329_parse_byte), the packet dispatcher             *)
(* (ch9329_process_packet) and the keyboard differencing engine            *)
(* (ch9329_process_keyboard_state).                                        *)
(***************************************************************************)
EXTENDS Integers, Sequences, FiniteSets, TLC

\* ---------------------------------------------------------------- constants
CH_HEADER_1 == 87
CH_HEADER_2 == 171
CH_CMD_TYPE == 0
CH_CMD_MOUSE == 1
CH_CMD_KEYBOARD == 2
CH_LEN_MOUSE == 5
CH_LEN_KEYBOARD == 8

CH_WAIT_HEADER_1 == "CH_WAIT_HEADER_1"
CH_WAIT_HEADER_2 == "CH_WAIT_HEADER_2"
CH_WAIT_CMD_TYPE == "CH_WAIT_CMD_TYPE"
CH_WAIT_CMD == "CH_WAIT_CMD"
CH_WAIT_LEN == "CH_WAIT_LEN"
CH_READ_DATA == "CH_READ_DATA"
CH_WAIT_CHECKSUM == "CH_WAIT_CHECKSUM"

ch_parser_state_t ==
    {CH_WAIT_HEADER_1, CH_WAIT_HEADER_2, CH_WAIT_CMD_TYPE, CH_WAIT_CMD,
     CH_WAIT_LEN, CH_READ_DATA, CH_WAIT_CHECKSUM}

\* u8 arithmetic: every assignment to a u8 keeps the low eight bits
U8(n) == n % 256

\* (s8)b : reinterpretation of a byte as a signed 8-bit value
S8(b) == IF b >= 128 THEN b - 256 ELSE b

\* the sum of a byte sequence modulo 256
RECURSIVE SumSeq(_)
SumSeq(q) == IF q = <<>> THEN 0 ELSE (Head(q) + SumSeq(Tail(q))) % 256

\* ------------------------------------------------------------------- bounds
\* longest run of noise bytes put in front of a frame
MaxNoise == 2
\* payload bytes of the first frame kept before a stream restart: 1..MaxCut
MaxCut == 2
\* most nonzero payload bytes of one frame of the unscripted stream
MaxNonZero == 1
\* most nonzero payload bytes of one frame of a scripted stream
MaxSet == 1
\* most keys held in one keyboard snapshot of a scripted stream
MaxHeld == 2
\* most runs of the timeout callback during one scripted stream
MaxTimeouts == 2
\* most header-like bytes in the payload of one frame of a scripted stream
MaxHeaderLike == 2

\* ---------------------------------------------------------------- variables
VARIABLES
    ch_parser_state,    \* ch_parser_state
    ch_packet,          \* ch_packet: cmd, len, data[8], checksum, data_index
    ch_kbd_modifier,    \* ch_kbd_modifier
    ch_kbd_keycodes,    \* ch_kbd_keycodes[6], indexed 0..5
    overrun,            \* TRUE once a payload write fell outside data[0..7]
    sink,               \* HID sink calls made by the most recent callback
    disp,               \* ch9329_process_packet invocations of that call
    last,               \* the byte the most recent parse_byte consumed, -1 at start
    consumed,           \* bytes consumed since the parser last was in CH_WAIT_HEADER_1
    input,              \* the scripted stream: its kind, its parts, its bytes
    fed,                \* number of bytes of the script already fed
    log,                \* the dispatches so far of a scripted stream, in order
    timeouts            \* the values of fed at which _timeout_handler ran, in order

vars == <<ch_parser_state, ch_packet, ch_kbd_modifier, ch_kbd_keycodes, overrun,
          sink, disp, last, consumed, input, fed, log, timeouts>>

\* ------------------------------------------------------------- the HID sink
KbdSendKey(code, state) == [fn |-> "ph_cmd_kbd_send_key", args |-> <<code, state>>]
MouseSendButton(a0, a1) == [fn |-> "ph_cmd_mouse_send_button", args |-> <<a0, a1>>]
MouseSendRel(a0, a1) == [fn |-> "ph_cmd_mouse_send_rel", args |-> <<a0, a1>>]
MouseSendWheel(a0, a1) == [fn |-> "ph_cmd_mouse_send_wheel", args |-> <<a0, a1>>]

\* ------------------------------------------- ch9329_process_keyboard_state
\* variant: the inner loop starts at the second slot, "j = 1"
Found_SkipsFirst(code, arr) == \E j \in 1..5 : code = arr[j]

\* variant: the inner loop stops one slot short, "j < 5"
Found_FiveSlots(code, arr) == \E j \in 0..4 : code = arr[j]

\* inner loop "for (j = 0; j < 6; j++) if (code == arr[j]) found = true"
Found(code, arr) == \E j \in 0..5 : code = arr[j]

\* variant: the "== 0" tests of the two outer loops are missing
SlotEmpty_Never(code) == FALSE

\* "if (ch_kbd_keycodes[i] == 0) continue;" / "if (new_keycodes[i] == 0) continue;"
SlotEmpty(code) == code = 0

\* loop 2: release events, slots i..5 of the stored snapshot, in slot order
RECURSIVE ReleaseLoop(_, _, _)
ReleaseLoop(i, old, new) ==
    IF i >= 6 THEN <<>>
    ELSE IF SlotEmpty(old[i]) THEN ReleaseLoop(i + 1, old, new)
    ELSE IF ~Found(old[i], new)
         THEN <<KbdSendKey(old[i], 0)>> \o ReleaseLoop(i + 1, old, new)
         ELSE ReleaseLoop(i + 1, old, new)

\* loop 3: press events, slots i..5 of the incoming snapshot, in slot order
RECURSIVE PressLoop(_, _, _)
PressLoop(i, old, new) ==
    IF i >= 6 THEN <<>>
    ELSE IF SlotEmpty(new[i]) THEN PressLoop(i + 1, old, new)
    ELSE IF ~Found(new[i], old)
         THEN <<KbdSendKey(new[i], 1)>> \o PressLoop(i + 1, old, new)
         ELSE PressLoop(i + 1, old, new)

\* variant: step 4, the copy of the new key codes into the snapshot, is missing
ProcessKeyboardState_NoStore(old_modifier, old_keycodes, new_modifier, new_keycodes) ==
    [calls    |-> ReleaseLoop(0, old_keycodes, new_keycodes)
                  \o PressLoop(0, old_keycodes, new_keycodes),
     modifier |-> new_modifier,
     keycodes |-> old_keycodes]

\* variant: the press loop runs before the release loop
ProcessKeyboardState_PressFirst(old_modifier, old_keycodes, new_modifier, new_keycodes) ==
    [calls    |-> PressLoop(0, old_keycodes, new_keycodes)
                  \o ReleaseLoop(0, old_keycodes, new_keycodes),
     modifier |-> new_modifier,
     keycodes |-> [i \in 0..5 |-> new_keycodes[i]]]

\* variant: step 2, the release loop, is missing
ProcessKeyboardState_NoRelease(old_modifier, old_keycodes, new_modifier, new_keycodes) ==
    [calls    |-> PressLoop(0, old_keycodes, new_keycodes),
     modifier |-> IF old_modifier # new_modifier THEN new_modifier
                  ELSE old_modifier,
     keycodes |-> [i \in 0..5 |-> new_keycodes[i]]]

\* variant: the copy loop of step 4 stops one slot short, "i < 5"
ProcessKeyboardState_CopiesFive(old_modifier, old_keycodes, new_modifier, new_keycodes) ==
    [calls    |-> ReleaseLoop(0, old_keycodes, new_keycodes)
                  \o PressLoop(0, old_keycodes, new_keycodes),
     modifier |-> IF old_modifier # new_modifier THEN new_modifier
                  ELSE old_modifier,
     keycodes |-> [i \in 0..5 |-> IF i < 5 THEN new_keycodes[i] ELSE old_keycodes[i]]]

\* variant: step 1, the modifier update, is missing
ProcessKeyboardState_KeepsModifier(old_modifier, old_keycodes, new_modifier, new_keycodes) ==
    [calls    |-> ReleaseLoop(0, old_keycodes, new_keycodes)
                  \o PressLoop(0, old_keycodes, new_keycodes),
     modifier |-> old_modifier,
     keycodes |-> [i \in 0..5 |-> new_keycodes[i]]]

\* the whole function: the calls it makes and the snapshot it leaves
ProcessKeyboardState(old_modifier, old_keycodes, new_modifier, new_keycodes) ==
    [calls    |-> ReleaseLoop(0, old_keycodes, new_keycodes)
                  \o PressLoop(0, old_keycodes, new_keycodes),
     modifier |-> IF old_modifier # new_modifier THEN new_modifier
                  ELSE old_modifier,
     keycodes |-> [i \in 0..5 |-> new_keycodes[i]]]

\* ---------------------------------------------------- ch9329_process_packet
\* variant: the extra-button mask is 0x07
MouseCalls_WideMask(data) ==
    LET buttons == data[0]
        x == S8(data[1])
        y == S8(data[2])
        wheel == S8(data[3])
    IN  << MouseSendButton(buttons % 8, (buttons \div 8) % 8),
           MouseSendRel(U8(x), U8(y)),
           MouseSendWheel(U8(wheel), 0) >>

\* variant: motion and wheel are reported only when they are not zero
MouseCalls_SkipsIdle(data) ==
    LET buttons == data[0]
        x == S8(data[1])
        y == S8(data[2])
        wheel == S8(data[3])
    IN  << MouseSendButton(buttons % 8, (buttons \div 8) % 4) >>
        \o (IF x = 0 /\ y = 0 THEN <<>> ELSE << MouseSendRel(U8(x), U8(y)) >>)
        \o (IF wheel = 0 THEN <<>> ELSE << MouseSendWheel(U8(wheel), 0) >>)

\* the mouse branch: three calls, always
MouseCalls(data) ==
    LET buttons == data[0]
        x == S8(data[1])
        y == S8(data[2])
        wheel == S8(data[3])
    IN  << MouseSendButton(buttons % 8, (buttons \div 8) % 4),
           MouseSendRel(U8(x), U8(y)),
           MouseSendWheel(U8(wheel), 0) >>

\* variant: the key codes are taken from data[1..6], "&ch_packet.data[1]"
ProcessPacket_KeysFromOne(pkt, modifier, keycodes) ==
    IF pkt.cmd = CH_CMD_KEYBOARD /\ pkt.len = CH_LEN_KEYBOARD
    THEN LET r == ProcessKeyboardState(modifier, keycodes, pkt.data[0],
                                       [i \in 0..5 |-> pkt.data[1 + i]])
         IN  [calls |-> r.calls, modifier |-> r.modifier,
              keycodes |-> r.keycodes, route |-> "keyboard"]
    ELSE IF pkt.cmd = CH_CMD_MOUSE /\ pkt.len = CH_LEN_MOUSE
    THEN [calls |-> MouseCalls(pkt.data), modifier |-> modifier,
          keycodes |-> keycodes, route |-> "mouse"]
    ELSE [calls |-> <<>>, modifier |-> modifier,
          keycodes |-> keycodes, route |-> "none"]

\* variant: the mouse branch stores the buttons byte as the modifier
ProcessPacket_MouseStores(pkt, modifier, keycodes) ==
    IF pkt.cmd = CH_CMD_KEYBOARD /\ pkt.len = CH_LEN_KEYBOARD
    THEN LET r == ProcessKeyboardState(modifier, keycodes, pkt.data[0],
                                       [i \in 0..5 |-> pkt.data[2 + i]])
         IN  [calls |-> r.calls, modifier |-> r.modifier,
              keycodes |-> r.keycodes, route |-> "keyboard"]
    ELSE IF pkt.cmd = CH_CMD_MOUSE /\ pkt.len = CH_LEN_MOUSE
    THEN [calls |-> MouseCalls(pkt.data), modifier |-> pkt.data[0],
          keycodes |-> keycodes, route |-> "mouse"]
    ELSE [calls |-> <<>>, modifier |-> modifier,
          keycodes |-> keycodes, route |-> "none"]

\* result: the sink calls, the snapshot afterwards and the branch taken
ProcessPacket(pkt, modifier, keycodes) ==
    IF pkt.cmd = CH_CMD_KEYBOARD /\ pkt.len = CH_LEN_KEYBOARD
    THEN LET r == ProcessKeyboardState(modifier, keycodes, pkt.data[0],
                                       [i \in 0..5 |-> pkt.data[2 + i]])
         IN  [calls |-> r.calls, modifier |-> r.modifier,
              keycodes |-> r.keycodes, route |-> "keyboard"]
    ELSE IF pkt.cmd = CH_CMD_MOUSE /\ pkt.len = CH_LEN_MOUSE
    THEN [calls |-> MouseCalls(pkt.data), modifier |-> modifier,
          keycodes |-> keycodes, route |-> "mouse"]
    ELSE [calls |-> <<>>, modifier |-> modifier,
          keycodes |-> keycodes, route |-> "none"]

\* -------------------------------------------------------- ch9329_parse_byte
\* "for (i = 0; i < len; i++) calculated_checksum += data[i]" from index i on
RECURSIVE ChecksumLoop(_, _, _)
ChecksumLoop(acc, i, pkt) ==
    IF i >= pkt.len THEN acc
    ELSE ChecksumLoop(U8(acc + pkt.data[i]), i + 1, pkt)

\* variant: the sum leaves out the length byte
CalculatedChecksum_NoLen(pkt) ==
    ChecksumLoop(U8(CH_HEADER_1 + CH_HEADER_2 + CH_CMD_TYPE + pkt.cmd), 0, pkt)

CalculatedChecksum(pkt) ==
    ChecksumLoop(U8(CH_HEADER_1 + CH_HEADER_2 + CH_CMD_TYPE + pkt.cmd + pkt.len),
                 0, pkt)

\* variant: either length is accepted for either command
LenAccepted_EitherLength(cmd, ch) == ch = CH_LEN_MOUSE \/ ch = CH_LEN_KEYBOARD

\* the length the CH_WAIT_LEN case accepts for the recorded command
LenAccepted(cmd, ch) ==
    \/ cmd = CH_CMD_MOUSE /\ ch = CH_LEN_MOUSE
    \/ cmd = CH_CMD_KEYBOARD /\ ch = CH_LEN_KEYBOARD

\* variant: the write index is not rewound for the new frame
AcceptLen_KeepsIndex(pkt, ch) == [pkt EXCEPT !.len = ch]

\* case CH_WAIT_LEN, length accepted: "len = ch; data_index = 0"
AcceptLen(pkt, ch) == [pkt EXCEPT !.len = ch, !.data_index = 0]

\* variant: the noise filter also takes 0xAB for a frame start
WaitHeader1_AnyHeader(ch) ==
    IF ch = CH_HEADER_1 \/ ch = CH_HEADER_2 THEN CH_WAIT_HEADER_2
    ELSE CH_WAIT_HEADER_1

\* case CH_WAIT_HEADER_1: the next parser state
WaitHeader1(ch) ==
    IF ch = CH_HEADER_1 THEN CH_WAIT_HEADER_2 ELSE CH_WAIT_HEADER_1

\* variant: a rejected 0x57 is taken for the start of the next header
WaitHeader2_Reexamines(ch) ==
    IF ch = CH_HEADER_2 THEN CH_WAIT_CMD_TYPE
    ELSE IF ch = CH_HEADER_1 THEN CH_WAIT_HEADER_2
    ELSE CH_WAIT_HEADER_1

\* case CH_WAIT_HEADER_2: the next parser state
WaitHeader2(ch) ==
    IF ch = CH_HEADER_2 THEN CH_WAIT_CMD_TYPE ELSE CH_WAIT_HEADER_1

\* case CH_WAIT_CMD_TYPE: the next parser state
WaitCmdType(ch) ==
    IF ch = CH_CMD_TYPE THEN CH_WAIT_CMD ELSE CH_WAIT_HEADER_1

\* variant: only the keyboard command is accepted
CmdAccepted_OnlyKeyboard(ch) == ch = CH_CMD_KEYBOARD

\* case CH_WAIT_CMD: the byte is a command
CmdAccepted(ch) == ch = CH_CMD_MOUSE \/ ch = CH_CMD_KEYBOARD

\* variant: a 0x57 in the payload is skipped instead of stored
StorePayload_SkipsHeader(pkt, ch) ==
    IF ch = CH_HEADER_1 THEN pkt
    ELSE [pkt EXCEPT
            !.data = IF pkt.data_index \in 0..7
                     THEN [@ EXCEPT ![pkt.data_index] = ch] ELSE @,
            !.data_index = U8(pkt.data_index + 1)]

\* case CH_READ_DATA: "ch_packet.data[ch_packet.data_index++] = ch"; a write
\* outside data[0..7] leaves data as it is here and is recorded in overrun
StorePayload(pkt, ch) ==
    [pkt EXCEPT
        !.data = IF pkt.data_index \in 0..7
                 THEN [@ EXCEPT ![pkt.data_index] = ch] ELSE @,
        !.data_index = U8(pkt.data_index + 1)]

\* variant: "if (ch_packet.data_index > ch_packet.len)", one byte more
PayloadComplete_Exceeds(pkt) == pkt.data_index > pkt.len

\* case CH_READ_DATA: "if (ch_packet.data_index >= ch_packet.len)"
PayloadComplete(pkt) == pkt.data_index >= pkt.len

\* variant: "if (calculated_checksum = ch_packet.checksum)", an assignment
ChecksumOk_Assign(pkt) == pkt.checksum # 0

\* variant: the dispatch is not guarded by the comparison
ChecksumOk_Always(pkt) == TRUE

\* case CH_WAIT_CHECKSUM: "if ((u8)calculated_checksum == ch_packet.checksum)"
ChecksumOk(pkt) == CalculatedChecksum(pkt) = pkt.checksum

\* variant: the packet is cleared when the checksum byte arrives
StoreChecksum_Clears(pkt, ch) ==
    [cmd |-> 0, len |-> 0, data |-> [i \in 0..7 |-> 0],
     checksum |-> ch, data_index |-> 0]

\* case CH_WAIT_CHECKSUM: "ch_packet.checksum = ch", the other fields stay
StoreChecksum(pkt, ch) == [pkt EXCEPT !.checksum = ch]

\* the complete program state as one record
Machine ==
    [state |-> ch_parser_state, packet |-> ch_packet,
     modifier |-> ch_kbd_modifier, keycodes |-> ch_kbd_keycodes,
     overrun |-> overrun]

\* one call of ch9329_parse_byte(ch) on machine m: the machine afterwards,
\* the sink calls made and the dispatcher invocations
ParseByte(m, ch) ==
    LET quiet(st, pkt) ==
            [state |-> st, packet |-> pkt, modifier |-> m.modifier,
             keycodes |-> m.keycodes, overrun |-> m.overrun,
             calls |-> <<>>, disp |-> <<>>]
        pkt == m.packet
    IN
    CASE m.state = CH_WAIT_HEADER_1 ->
            quiet(WaitHeader1(ch), pkt)
      [] m.state = CH_WAIT_HEADER_2 ->
            quiet(WaitHeader2(ch), pkt)
      [] m.state = CH_WAIT_CMD_TYPE ->
            quiet(WaitCmdType(ch), pkt)
      [] m.state = CH_WAIT_CMD ->
            IF CmdAccepted(ch)
            THEN quiet(CH_WAIT_LEN, [pkt EXCEPT !.cmd = ch])
            ELSE quiet(CH_WAIT_HEADER_1, pkt)
      [] m.state = CH_WAIT_LEN ->
            IF LenAccepted(pkt.cmd, ch)
            THEN quiet(CH_READ_DATA, AcceptLen(pkt, ch))
            ELSE quiet(CH_WAIT_HEADER_1, pkt)
      [] m.state = CH_READ_DATA ->
            LET idx == pkt.data_index
                inside == idx \in 0..7
                pkt2 == StorePayload(pkt, ch)
                st2 == IF PayloadComplete(pkt2)
                       THEN CH_WAIT_CHECKSUM ELSE CH_READ_DATA
            IN  [quiet(st2, pkt2) EXCEPT !.overrun = m.overrun \/ ~inside]
      [] m.state = CH_WAIT_CHECKSUM ->
            LET pkt2 == StoreChecksum(pkt, ch)
            IN  IF ChecksumOk(pkt2)
                THEN LET r == ProcessPacket(pkt2, m.modifier, m.keycodes)
                     IN  [state |-> CH_WAIT_HEADER_1, packet |-> pkt2,
                          modifier |-> r.modifier, keycodes |-> r.keycodes,
                          overrun |-> m.overrun, calls |-> r.calls,
                          disp |-> <<[cmd |-> pkt2.cmd, len |-> pkt2.len,
                                      data |-> pkt2.data, route |-> r.route]>>]
                ELSE quiet(CH_WAIT_HEADER_1, pkt2)
      [] OTHER -> quiet(CH_WAIT_HEADER_1, pkt)


\* ------------------------------------------------------------ initial state
\* the statics' initializers and main(): parser in CH_WAIT_HEADER_1,
\* ch_packet zero-initialized, empty keyboard snapshot
ZeroPacket ==
    [cmd |-> 0, len |-> 0, data |-> [i \in 0..7 |-> 0],
     checksum |-> 0, data_index |-> 0]

NoInput == [kind |-> "none", parts |-> <<>>, bytes |-> <<>>]

InitProgram ==
    /\ ch_parser_state = CH_WAIT_HEADER_1
    /\ ch_packet = ZeroPacket
    /\ ch_kbd_modifier = 0
    /\ ch_kbd_keycodes = [i \in 0..5 |-> 0]
    /\ overrun = FALSE
    /\ sink = <<>>
    /\ disp = <<>>
    /\ last = -1
    /\ consumed = <<>>
    /\ fed = 0
    /\ log = <<>>
    /\ timeouts = <<>>

\* ------------------------------------------------------------------ actions
\* ch9329_parse_byte(ch), with the bookkeeping of what the call did
Step(ch) ==
    LET r == ParseByte(Machine, ch) IN
    /\ ch_parser_state' = r.state
    /\ ch_packet' = r.packet
    /\ ch_kbd_modifier' = r.modifier
    /\ ch_kbd_keycodes' = r.keycodes
    /\ overrun' = r.overrun
    /\ sink' = r.calls
    /\ disp' = r.disp
    /\ last' = ch
    /\ consumed' = IF r.state = CH_WAIT_HEADER_1 THEN <<>>
                   ELSE Append(consumed, ch)
    /\ UNCHANGED timeouts

\* the bytes the line delivers in the unscripted stream: the protocol's own
\* bytes while a header is awaited, 0x00 or 0x57 as payload, and after the
\* payload the sum of the bytes since the frame start or a wrong sum
LineBytes ==
    {CH_HEADER_1, CH_HEADER_2, CH_CMD_TYPE, CH_CMD_MOUSE, CH_CMD_KEYBOARD,
     CH_LEN_MOUSE, CH_LEN_KEYBOARD}

PayloadBytes == {0, CH_HEADER_1}

\* nonzero bytes among the payload bytes of the frame in flight
NonZeroInFlight ==
    Cardinality({i \in 0..7 : i < ch_packet.data_index /\ ch_packet.data[i] # 0})

NextBytes ==
    IF ch_parser_state = CH_READ_DATA
    THEN IF NonZeroInFlight < MaxNonZero THEN PayloadBytes ELSE {0}
    ELSE IF ch_parser_state = CH_WAIT_CHECKSUM
    THEN {SumSeq(consumed), (SumSeq(consumed) + 1) % 256}
    ELSE LineBytes

\* ph_com_uart_task: one byte read from the line goes to the parser
Receive ==
    \E ch \in NextBytes :
        /\ Step(ch)
        /\ UNCHANGED <<input, fed, log>>

\* --------------------------------------------------------- scripted streams
\* the wire format: header, frame type, command, length, payload, and the sum
\* of all bytes before it, modulo 256 (SumSeq)
FrameBody(cmd, payload) ==
    <<CH_HEADER_1, CH_HEADER_2, CH_CMD_TYPE, cmd, Len(payload)>> \o payload

Frame(cmd, payload) == Append(FrameBody(cmd, payload), SumSeq(FrameBody(cmd, payload)))

\* a frame whose trailing byte is off by d from the sum
BadFrame(cmd, payload, d) ==
    Append(FrameBody(cmd, payload), (SumSeq(FrameBody(cmd, payload)) + d) % 256)

FrameCmd(f) == f[4]
FrameLen(f) == f[5]
FramePayload(f) == SubSeq(f, 6, 5 + f[5])

WellFormed(f) ==
    /\ Len(f) >= 6
    /\ f[1] = CH_HEADER_1 /\ f[2] = CH_HEADER_2 /\ f[3] = CH_CMD_TYPE
    /\ \/ f[4] = CH_CMD_MOUSE /\ f[5] = CH_LEN_MOUSE
       \/ f[4] = CH_CMD_KEYBOARD /\ f[5] = CH_LEN_KEYBOARD
    /\ Len(f) = 6 + f[5]
    /\ f[Len(f)] = SumSeq(SubSeq(f, 1, Len(f) - 1))

\* sequences of length n over A and 0 with at most k nonzero entries
BoundedSeqs(n, A, k) ==
    {q \in [1..n -> A \cup {0}] : Cardinality({i \in 1..n : q[i] # 0}) <= k}

\* sequences over A of length at most n
SeqsUpTo(n, A) == UNION {[1..m -> A] : m \in 0..n}

ScriptBytes == {CH_HEADER_1}
NoiseBytes == {CH_HEADER_1, CH_HEADER_2, CH_CMD_TYPE, CH_CMD_KEYBOARD}
KeyCodes == {4, 5, 6}
Modifiers == {0, 2}

MouseFrames == {Frame(CH_CMD_MOUSE, q) : q \in BoundedSeqs(CH_LEN_MOUSE, ScriptBytes, MaxSet)}
KbdFrames == {Frame(CH_CMD_KEYBOARD, q) : q \in BoundedSeqs(CH_LEN_KEYBOARD, ScriptBytes, MaxSet)}
Frames == MouseFrames \cup KbdFrames

\* six-slot snapshots with at most MaxHeld keys, any placement, repeats included
Snapshots == BoundedSeqs(6, KeyCodes, MaxHeld)
\* the snapshots a differencing run starts from
StoredSnapshots == BoundedSeqs(6, {4, 5}, MaxHeld)
\* snapshots without an empty slot: one code in all six slots, or three codes twice
FullSnapshots == {[i \in 1..6 |-> c] : c \in KeyCodes} \cup {<<4, 5, 6, 4, 5, 6>>}
KbdFrameOf(modifier, slots) == Frame(CH_CMD_KEYBOARD, <<modifier, 0>> \o slots)

Script(kind, parts, bytes) == [kind |-> kind, parts |-> parts, bytes |-> bytes]

\* two valid frames, one directly after the other
PairScripts == {Script("pair", <<f, g>>, f \o g) : f \in Frames, g \in Frames}

\* a keyboard frame (or nothing), then a frame with a wrong trailing byte
BadSumScripts ==
    {Script("badsum", <<f, b>>, f \o b) :
        f \in {<<>>, KbdFrameOf(2, <<4, 5, 0, 0, 0, 0>>)},
        b \in {BadFrame(FrameCmd(g), FramePayload(g), d) :
                    g \in Frames, d \in {1, 255}}}

\* bytes the parser ignores while it waits for 0x57, then a valid frame
NoiseScripts ==
    {Script("noise", <<n, f>>, n \o f) :
        n \in SeqsUpTo(MaxNoise, NoiseBytes \ {CH_HEADER_1}), f \in Frames}

\* arbitrary bytes, then a valid frame
ResyncScripts ==
    {Script("resync", <<n, f>>, n \o f) :
        n \in SeqsUpTo(MaxNoise, NoiseBytes), f \in Frames}

\* a frame cut inside its payload, then a valid frame
TruncScripts ==
    {Script("trunc", <<SubSeq(g, 1, 5 + k), f>>, SubSeq(g, 1, 5 + k) \o f) :
        g \in Frames, k \in 1..MaxCut, f \in Frames}

\* the same six slots in two consecutive keyboard frames, at the start or
\* after a keyboard frame that left two keys held (parts: the two frames, then
\* the frame fed before them, if any)
RepeatScripts ==
    {Script("repeat", <<KbdFrameOf(0, q), KbdFrameOf(m, q), p>>,
            p \o KbdFrameOf(0, q) \o KbdFrameOf(m, q)) :
        m \in Modifiers, q \in Snapshots,
        p \in {<<>>, KbdFrameOf(0, <<6, 0, 0, 0, 0, 4>>)}}

\* mouse payloads: buttons with and without bits 5-7, deltas at both ends of
\* the signed range, any reserved byte
MousePayloads ==
    {<<b, dx, dy, w, r>> : b \in {0, 9, 233, 255}, dx \in {0, 251, 127, 128},
                           dy \in {0, 128}, w \in {0, 3, 255}, r \in {0, 170}}

\* two valid mouse frames, the first idle or the one of the worked example
MouseScripts ==
    {Script("mouse", <<Frame(CH_CMD_MOUSE, p), Frame(CH_CMD_MOUSE, q)>>,
            Frame(CH_CMD_MOUSE, p) \o Frame(CH_CMD_MOUSE, q)) :
        p \in {<<0, 0, 0, 0, 0>>, <<9, 251, 0, 3, 0>>}, q \in MousePayloads}

\* one valid frame whose payload holds bytes that look like a header: 0x57,
\* 0xAB, a command byte, or the first five bytes of a keyboard frame
HeaderLike == {CH_HEADER_1, CH_HEADER_2, CH_CMD_KEYBOARD}
PayloadScripts ==
    {Script("payload", <<f>>, f) :
        f \in {Frame(CH_CMD_MOUSE, q) :
                   q \in BoundedSeqs(CH_LEN_MOUSE, HeaderLike, MaxHeaderLike)}
              \cup {Frame(CH_CMD_KEYBOARD, q) :
                   q \in BoundedSeqs(CH_LEN_KEYBOARD, HeaderLike, MaxHeaderLike)}
              \cup {Frame(CH_CMD_KEYBOARD,
                          <<CH_HEADER_1, CH_HEADER_2, CH_CMD_TYPE, CH_CMD_KEYBOARD,
                            CH_LEN_KEYBOARD, 0, 0, 0>>),
                    Frame(CH_CMD_MOUSE,
                          <<CH_HEADER_1, CH_HEADER_2, CH_CMD_TYPE, CH_CMD_MOUSE,
                            CH_LEN_MOUSE>>)}}

\* a keyboard frame that leaves keys 4 and 5 held, then a keyboard frame with
\* a nonzero reserved byte payload[1]: a held code, a new code, or 0xFF
ReservedScripts ==
    {Script("reserved", <<KbdFrameOf(0, <<4, 5, 0, 0, 0, 0>>),
                          Frame(CH_CMD_KEYBOARD, <<m, r>> \o q)>>,
            KbdFrameOf(0, <<4, 5, 0, 0, 0, 0>>)
                \o Frame(CH_CMD_KEYBOARD, <<m, r>> \o q)) :
        m \in Modifiers, r \in {4, 6, 255},
        q \in {<<0, 0, 0, 0, 0, 0>>, <<4, 0, 0, 0, 0, 0>>,
               <<5, 6, 0, 0, 0, 0>>, <<0, 0, 0, 0, 0, 6>>}}

\* three keyboard frames: keys come, stay, move between slots and go
KeySnapshots ==
    {<<0, 0, 0, 0, 0, 0>>, <<4, 0, 0, 0, 0, 0>>, <<4, 4, 0, 0, 0, 0>>,
     <<5, 4, 0, 0, 0, 0>>, <<0, 0, 0, 0, 6, 5>>, <<4, 5, 6, 4, 5, 6>>}

KeysScripts ==
    {Script("keys", <<KbdFrameOf(0, a), KbdFrameOf(0, b), KbdFrameOf(0, c)>>,
            KbdFrameOf(0, a) \o KbdFrameOf(0, b) \o KbdFrameOf(0, c)) :
        a \in KeySnapshots, b \in KeySnapshots, c \in KeySnapshots}

Scripts ==
    PairScripts \cup BadSumScripts \cup NoiseScripts \cup ResyncScripts
    \cup TruncScripts \cup RepeatScripts \cup MouseScripts \cup PayloadScripts
    \cup ReservedScripts \cup KeysScripts


\* the caller's loop: the next byte of the script goes to ch9329_parse_byte
FeedNext ==
    /\ fed < Len(input.bytes)
    /\ Step(input.bytes[fed + 1])
    /\ fed' = fed + 1
    /\ LET r == ParseByte(Machine, input.bytes[fed + 1]) IN
       log' = IF r.disp # <<>> \/ r.calls # <<>>
              THEN Append(log, [at |-> fed + 1, disp |-> r.disp, calls |-> r.calls])
              ELSE log
    /\ UNCHANGED input

InitStream ==
    /\ InitProgram
    /\ input \in Scripts

NextStream == FeedNext

SpecStream == InitStream /\ [][NextStream]_vars

\* the machine after main() and the run of ch9329_parse_byte over a byte sequence
InitMachine ==
    [state |-> CH_WAIT_HEADER_1, packet |-> ZeroPacket, modifier |-> 0,
     keycodes |-> [i \in 0..5 |-> 0], overrun |-> FALSE]

MachineOf(r) ==
    [state |-> r.state, packet |-> r.packet, modifier |-> r.modifier,
     keycodes |-> r.keycodes, overrun |-> r.overrun]

RECURSIVE RunMachine(_, _)
RunMachine(m, bytes) ==
    IF bytes = <<>> THEN m
    ELSE RunMachine(MachineOf(ParseByte(m, Head(bytes))), Tail(bytes))

RECURSIVE CallsOfRun(_, _)
CallsOfRun(m, bytes) ==
    IF bytes = <<>> THEN <<>>
    ELSE LET r == ParseByte(m, Head(bytes))
         IN  r.calls \o CallsOfRun(MachineOf(r), Tail(bytes))

\* keyboard differencing: the program has received a keyboard frame with the
\* slots stored and all but the last byte of a keyboard frame with the slots
\* incoming (the state RunMachine gives for those bytes, see KbdStateReached);
\* the script holds that last byte
InitKbd ==
    \E stored \in StoredSnapshots \cup FullSnapshots,
       incoming \in Snapshots \cup FullSnapshots :
        LET f == KbdFrameOf(0, stored)
            g == KbdFrameOf(2, incoming)
        IN  /\ ch_parser_state = CH_WAIT_CHECKSUM
            /\ ch_packet = [cmd |-> CH_CMD_KEYBOARD, len |-> CH_LEN_KEYBOARD,
                            data |-> [i \in 0..7 |-> g[6 + i]],
                            checksum |-> f[Len(f)], data_index |-> CH_LEN_KEYBOARD]
            /\ ch_kbd_modifier = 0
            /\ ch_kbd_keycodes = [i \in 0..5 |-> stored[i + 1]]
            /\ overrun = FALSE
            /\ sink = <<>>
            /\ disp = <<>>
            /\ last = g[Len(g) - 1]
            /\ consumed = SubSeq(g, 1, Len(g) - 1)
            /\ input = Script("kbd", <<f, g>>, f \o g)
            /\ fed = Len(f) + Len(g) - 1
            /\ log = <<>>
            /\ timeouts = <<>>

\* the program state is the one ch9329_parse_byte reaches from main() over
\* the bytes of the script fed so far
KbdStateReached ==
    Machine = RunMachine(InitMachine, SubSeq(input.bytes, 1, fed))

NextKbd == FeedNext

SpecKbd == InitKbd /\ [][NextKbd]_vars

\* ------------------------------------- the parser of src/hid/pico/src/main.c
\* the calls its dispatcher makes
MainC_KeyboardReport(modifier, keycodes) ==
    [fn |-> "ph_hid_keyboard_report", args |-> <<modifier, keycodes>>]
MainC_MouseReport(buttons, x, y, wheel) ==
    [fn |-> "ph_hid_mouse_report", args |-> <<buttons, x, y, wheel>>]

\* ch9329_process_packet() of main.c: one report call, or none
MainC_ProcessPacket(pkt) ==
    IF pkt.cmd = CH_CMD_KEYBOARD /\ pkt.len = CH_LEN_KEYBOARD
    THEN << MainC_KeyboardReport(pkt.data[0],
                <<pkt.data[2], pkt.data[3], pkt.data[4],
                  pkt.data[5], pkt.data[6], pkt.data[7]>>) >>
    ELSE IF pkt.cmd = CH_CMD_MOUSE /\ pkt.len = CH_LEN_MOUSE
    THEN << MainC_MouseReport(pkt.data[0], S8(pkt.data[1]),
                              S8(pkt.data[2]), S8(pkt.data[3])) >>
    ELSE <<>>

\* main.c after its static initializers and main(): parser state and packet
MainC_Init == [state |-> CH_WAIT_HEADER_1, packet |-> ZeroPacket]

\* ch9329_parse_byte(ch) of main.c on its parser state and packet m: the state
\* and packet afterwards, the dispatcher invocations and the calls they make
\* (a write at data_index > 7 is outside data[]; data is left as it is here)
MainC_ParseByte(m, ch) ==
    LET pkt == m.packet
        to(st, p) == [state |-> st, packet |-> p, disp |-> <<>>, calls |-> <<>>]
    IN
    CASE m.state = CH_WAIT_HEADER_1 ->
            IF ch = CH_HEADER_1 THEN to(CH_WAIT_HEADER_2, pkt)
            ELSE to(CH_WAIT_HEADER_1, pkt)
      [] m.state = CH_WAIT_HEADER_2 ->
            IF ch = CH_HEADER_2 THEN to(CH_WAIT_CMD_TYPE, pkt)
            ELSE to(CH_WAIT_HEADER_1, pkt)
      [] m.state = CH_WAIT_CMD_TYPE ->
            IF ch = CH_CMD_TYPE THEN to(CH_WAIT_CMD, pkt)
            ELSE to(CH_WAIT_HEADER_1, pkt)
      [] m.state = CH_WAIT_CMD ->
            IF ch = CH_CMD_MOUSE \/ ch = CH_CMD_KEYBOARD
            THEN to(CH_WAIT_LEN, [pkt EXCEPT !.cmd = ch])
            ELSE to(CH_WAIT_HEADER_1, pkt)
      [] m.state = CH_WAIT_LEN ->
            IF \/ pkt.cmd = CH_CMD_MOUSE /\ ch = CH_LEN_MOUSE
               \/ pkt.cmd = CH_CMD_KEYBOARD /\ ch = CH_LEN_KEYBOARD
            THEN to(CH_READ_DATA, [pkt EXCEPT !.len = ch, !.data_index = 0])
            ELSE to(CH_WAIT_HEADER_1, pkt)
      [] m.state = CH_READ_DATA ->
            LET p == [pkt EXCEPT
                        !.data = IF pkt.data_index <= 7
                                 THEN [@ EXCEPT ![pkt.data_index] = ch] ELSE @,
                        !.data_index = (pkt.data_index + 1) % 256]
            IN  IF p.data_index >= p.len THEN to(CH_WAIT_CHECKSUM, p)
                ELSE to(CH_READ_DATA, p)
      [] m.state = CH_WAIT_CHECKSUM ->
            LET p == [pkt EXCEPT !.checksum = ch]
                calculated_checksum ==
                    SumSeq(<<CH_HEADER_1, CH_HEADER_2, CH_CMD_TYPE, p.cmd, p.len>>
                           \o [i \in 1..p.len |-> p.data[i - 1]])
            IN  IF calculated_checksum = p.checksum
                THEN [state |-> CH_WAIT_HEADER_1, packet |-> p,
                      disp |-> <<[cmd |-> p.cmd, len |-> p.len, data |-> p.data]>>,
                      calls |-> MainC_ProcessPacket(p)]
                ELSE to(CH_WAIT_HEADER_1, p)
      [] OTHER -> to(CH_WAIT_HEADER_1, pkt)

\* ------------------------------------------------------ the timeout callback
\* variant: a timeout abandons the frame in flight
TimeoutHandler_Abandons(m) ==
    [state |-> CH_WAIT_HEADER_1, packet |-> m.packet, modifier |-> m.modifier,
     keycodes |-> m.keycodes, overrun |-> m.overrun, calls |-> <<>>, disp |-> <<>>]

\* _timeout_handler(): the body is empty, the response it used to send is
\* commented out
TimeoutHandler(m) ==
    [state |-> m.state, packet |-> m.packet, modifier |-> m.modifier,
     keycodes |-> m.keycodes, overrun |-> m.overrun, calls |-> <<>>, disp |-> <<>>]

\* the transport layer runs the callback registered by ph_com_init, at any
\* point of the stream
Timeout ==
    /\ Len(timeouts) < MaxTimeouts
    /\ LET r == TimeoutHandler(Machine) IN
       /\ ch_parser_state' = r.state
       /\ ch_packet' = r.packet
       /\ ch_kbd_modifier' = r.modifier
       /\ ch_kbd_keycodes' = r.keycodes
       /\ overrun' = r.overrun
       /\ sink' = r.calls
       /\ disp' = r.disp
    /\ timeouts' = Append(timeouts, fed)
    /\ UNCHANGED <<last, consumed, input, fed, log>>

\* one valid frame, fed with timeouts in between
TimeoutScripts ==
    {Script("timeout", <<f>>, f) :
        f \in {KbdFrameOf(2, <<4, 5, 0, 0, 0, 0>>),
                KbdFrameOf(0, <<CH_HEADER_1, CH_HEADER_2, 0, 0, 0, 0>>),
                Frame(CH_CMD_MOUSE, <<9, 251, 0, 3, 0>>),
                Frame(CH_CMD_MOUSE, <<0, 0, 0, 0, 0>>)}}

InitTimeout ==
    /\ InitProgram
    /\ input \in TimeoutScripts

NextTimeout == FeedNext \/ Timeout

SpecTimeout == InitTimeout /\ [][NextTimeout]_vars

Init ==
    /\ InitProgram
    /\ input = NoInput

Next == Receive

Spec == Init /\ [][Next]_vars

\* ------------------------------------------------------------------- claims
\* what a dispatch log entry says was handed to ch9329_process_packet
Dispatched(e) == e.disp[1]
PayloadOf(d) == [i \in 1..d.len |-> d.data[i - 1]]

\* the log entry a valid frame f must leave when its last byte is at offset n
CarriesFrame(e, f, n) ==
    /\ e.at = n
    /\ Len(e.disp) = 1
    /\ Dispatched(e).cmd = FrameCmd(f)
    /\ Dispatched(e).len = FrameLen(f)
    /\ PayloadOf(Dispatched(e)) = FramePayload(f)
    /\ Dispatched(e).route = IF FrameCmd(f) = CH_CMD_KEYBOARD THEN "keyboard"
                              ELSE "mouse"

AtEnd == fed = Len(input.bytes)

\* C1: sink calls are made only by the call that consumes a byte in
\* CH_WAIT_CHECKSUM, and only when the bytes consumed since the parser left
\* CH_WAIT_HEADER_1, which are the bytes immediately before it in the stream,
\* together with that byte form a well-formed frame with the right sum.
C1_DispatchSound ==
    [][ sink' # <<>> =>
            /\ ch_parser_state = CH_WAIT_CHECKSUM
            /\ WellFormed(Append(consumed, last')) ]_vars

C1_Witness ==
    /\ sink # <<>>
    /\ sink[1].fn = "ph_cmd_kbd_send_key"
    /\ ch_packet.checksum = last
    /\ ch_parser_state = CH_WAIT_HEADER_1

\* C2: a well-formed frame fed while the parser is in CH_WAIT_HEADER_1 (at the
\* start, or right after another frame) is dispatched exactly once, at its last
\* byte, with its command and payload, to the keyboard or the mouse branch, and
\* leaves the parser in CH_WAIT_HEADER_1.
C2_DispatchComplete ==
    (input.kind = "pair" \/ (input.kind = "noise" /\ input.parts[1] = <<>>)) =>
        LET f == input.parts[1]
            g == input.parts[2]
            n1 == Len(f)
            n2 == Len(f) + Len(g)
            first == IF f = <<>> THEN 0 ELSE 1
        IN  /\ fed < n1 => log = <<>>
            /\ fed >= n1 /\ fed < n2 => Len(log) = first
            /\ fed = n2 => Len(log) = first + 1
            /\ (first = 1 /\ fed >= n1) => CarriesFrame(log[1], f, n1)
            /\ fed = n2 => CarriesFrame(log[first + 1], g, n2)
            /\ fed \in {n1, n2} => ch_parser_state = CH_WAIT_HEADER_1

C2_Witness ==
    /\ input.kind = "pair"
    /\ AtEnd
    /\ Len(log) = 2
    /\ Dispatched(log[1]).route = "keyboard"
    /\ Dispatched(log[2]).route = "mouse"
    /\ \E i \in 0..4 : Dispatched(log[2]).data[i] = CH_HEADER_1

\* C3: while a frame with a wrong trailing byte is fed, no sink call is made,
\* nothing is dispatched and the keyboard snapshot stays as it was; after its
\* last byte the parser is in CH_WAIT_HEADER_1.
C3_BadChecksumDropped ==
    [][ (input.kind = "badsum" /\ fed >= Len(input.parts[1])) =>
            /\ sink' = <<>>
            /\ disp' = <<>>
            /\ ch_kbd_modifier' = ch_kbd_modifier
            /\ ch_kbd_keycodes' = ch_kbd_keycodes
            /\ fed' = Len(input.bytes) => ch_parser_state' = CH_WAIT_HEADER_1 ]_vars

C3_Witness ==
    /\ input.kind = "badsum"
    /\ AtEnd
    /\ last # CalculatedChecksum([ch_packet EXCEPT !.checksum = 0])
    /\ ch_packet.cmd = CH_CMD_KEYBOARD
    /\ \E i \in 0..5 : ch_kbd_keycodes[i] # 0 /\ ch_packet.data[2 + i] # ch_kbd_keycodes[i]

RECURSIVE CallsOfLog(_)
CallsOfLog(l) == IF l = <<>> THEN <<>> ELSE Head(l).calls \o CallsOfLog(Tail(l))

\* C4: from the initial state, bytes other than 0x57 followed by a valid frame
\* give exactly the sink calls of that frame fed alone.
C4_NoisePrefix ==
    (input.kind = "noise" /\ AtEnd) =>
        CallsOfLog(log) = CallsOfRun(InitMachine, input.parts[2])

C4_Witness ==
    /\ input.kind = "noise"
    /\ AtEnd
    /\ Len(input.parts[1]) = MaxNoise
    /\ CallsOfLog(log) # <<>>

\* C5 as stated: after arbitrary bytes, the valid frame that follows is
\* dispatched when its last byte is consumed.
C5_ResyncAfterAnyNoise ==
    (input.kind = "resync" /\ AtEnd) =>
        /\ log # <<>>
        /\ CarriesFrame(log[Len(log)], input.parts[2], Len(input.bytes))

\* C6 as stated: a frame cut inside its payload is never dispatched and the
\* valid frame that follows is dispatched with its own command and payload.
C6_TruncatedThenValid ==
    (input.kind = "trunc" /\ AtEnd) =>
        /\ Len(log) = 1
        /\ CarriesFrame(log[1], input.parts[2], Len(input.bytes))

\* C7: two valid frames back to back give exactly two dispatches, in stream
\* order, and the second carries the command, length and payload of the second
\* frame only: the packet it hands over, and for a mouse frame the sink calls,
\* are those of the second frame fed alone.
C7_BackToBack ==
    (input.kind = "pair" /\ AtEnd) =>
        LET f == input.parts[1]
            g == input.parts[2]
            alone == RunMachine(InitMachine, g).packet
        IN  /\ Len(log) = 2
            /\ log[1].at = Len(f) /\ log[2].at = Len(f) + Len(g)
            /\ PayloadOf(Dispatched(log[1])) = FramePayload(f)
            /\ Dispatched(log[1]).cmd = FrameCmd(f)
            /\ Dispatched(log[2]).cmd = alone.cmd
            /\ Dispatched(log[2]).len = alone.len
            /\ \A i \in 0..(alone.len - 1) : Dispatched(log[2]).data[i] = alone.data[i]
            /\ PayloadOf(Dispatched(log[2])) = FramePayload(g)
            /\ FrameCmd(g) = CH_CMD_MOUSE => log[2].calls = CallsOfRun(InitMachine, g)

C7_Witness ==
    /\ input.kind = "pair"
    /\ AtEnd
    /\ Len(log) = 2
    /\ FrameCmd(input.parts[1]) = CH_CMD_KEYBOARD
    /\ FrameCmd(input.parts[2]) = CH_CMD_MOUSE
    /\ input.parts[1][6] = CH_HEADER_1
    /\ input.parts[2][6] = 0
    /\ input.parts[2][7] = CH_HEADER_1

\* key codes of the events of one kind (0 release, 1 press) in a call sequence
KeysOf(calls, kind) ==
    {calls[i].args[1] : i \in {j \in 1..Len(calls) :
        calls[j].fn = "ph_cmd_kbd_send_key" /\ calls[j].args[2] = kind}}

\* nonzero codes of the six slots of a keyboard frame
Held(f) == {f[i] : i \in 8..13} \ {0}

KbdDone == input.kind = "kbd" /\ AtEnd

\* C8: the keys released are exactly the nonzero codes of the stored snapshot
\* that are in no slot of the incoming one, the keys pressed exactly the nonzero
\* codes of the incoming snapshot that are in no slot of the stored one; a code
\* in both gets no event, and nothing but key events is emitted.
C8_KeyboardDiff ==
    KbdDone =>
        LET old == Held(input.parts[1])
            new == Held(input.parts[2])
        IN  /\ KeysOf(sink, 0) = old \ new
            /\ KeysOf(sink, 1) = new \ old
            /\ \A i \in 1..Len(sink) :
                   /\ sink[i].fn = "ph_cmd_kbd_send_key"
                   /\ sink[i].args[2] \in {0, 1}
                   /\ sink[i].args[1] \notin (old \cap new)

C8_Witness ==
    /\ KbdDone
    /\ Held(input.parts[1]) = {4, 5}
    /\ Held(input.parts[2]) = {5, 6}
    /\ KeysOf(sink, 0) = {4}
    /\ KeysOf(sink, 1) = {6}

\* C9: among the events of one keyboard packet no press comes before a
\* release; stored {A} and incoming {B}, A # B, give release(A) then press(B).
C9_ReleaseBeforePress ==
    KbdDone =>
        /\ \A i \in 1..Len(sink) : \A j \in 1..Len(sink) :
               (sink[i].args[2] = 1 /\ sink[j].args[2] = 0) => j < i
        /\ \A a \in KeyCodes, b \in KeyCodes :
               ( /\ a # b
                 /\ SubSeq(input.parts[1], 8, 13) = <<a, 0, 0, 0, 0, 0>>
                 /\ SubSeq(input.parts[2], 8, 13) = <<b, 0, 0, 0, 0, 0>> )
               => sink = <<KbdSendKey(a, 0), KbdSendKey(b, 1)>>

C9_Witness ==
    /\ KbdDone
    /\ Len(sink) = 2
    /\ sink[1].args[2] = 0
    /\ sink[2].args[2] = 1
    /\ sink[1].args[1] # sink[2].args[1]

\* C10: the same six slots in two consecutive valid keyboard packets: the
\* second packet yields no event, whatever was held before the first; from the
\* initial snapshot the first packet yields press events only, for each held
\* code, so the presses of the pair all belong to the first packet.
C10_RepeatIsSilent ==
    (input.kind = "repeat" /\ AtEnd) =>
        LET before == IF input.parts[3] = <<>> THEN 0 ELSE 1
            first == log[before + 1].calls
            second == log[before + 2].calls
        IN  /\ Len(log) = before + 2
            /\ second = <<>>
            /\ KeysOf(first, 1) = Held(input.parts[1])
                                    \ (IF before = 1 THEN Held(input.parts[3]) ELSE {})
            /\ before = 0 =>
                   \A i \in 1..Len(first) :
                       /\ first[i].fn = "ph_cmd_kbd_send_key"
                       /\ first[i].args[2] = 1

C10_Witness ==
    /\ input.kind = "repeat"
    /\ AtEnd
    /\ input.parts[3] = <<>>
    /\ Len(log) = 2
    /\ Len(log[1].calls) = 2
    /\ \E i \in 8..13 : input.parts[1][i] = 0
    /\ \E i \in 8..12 : input.parts[1][i] # 0 /\ input.parts[1][i + 1] = input.parts[1][i]

\* number of calls in a call sequence that report the code with the given kind
EventCount(calls, code, kind) ==
    Cardinality({i \in 1..Len(calls) : calls[i] = KbdSendKey(code, kind)})

\* number of slots of a keyboard frame that hold the code
SlotCount(f, code) == Cardinality({i \in 8..13 : f[i] = code})

\* C11 as stated: a nonzero code in more than one slot of the incoming
\* snapshot and in no slot of the stored one is pressed at most once; a nonzero
\* code in more than one slot of the stored snapshot and in no slot of the
\* incoming one is released at most once.
C11_DuplicateIsOneKey ==
    KbdDone =>
        \A c \in KeyCodes :
            /\ (SlotCount(input.parts[2], c) > 1 /\ SlotCount(input.parts[1], c) = 0)
                   => EventCount(sink, c, 1) <= 1
            /\ (SlotCount(input.parts[1], c) > 1 /\ SlotCount(input.parts[2], c) = 0)
                   => EventCount(sink, c, 0) <= 1

\* the events the two snapshots of a differencing run call for, computed from
\* the nonzero codes alone: the stored slots whose code is gone, in slot order,
\* then the incoming slots whose code is new, in slot order
EventsOfNonZero(f, g) ==
    LET Gone(c) == c # 0 /\ c \notin Held(g)
        Came(c) == c # 0 /\ c \notin Held(f)
        rel == SelectSeq(SubSeq(f, 8, 13), Gone)
        prs == SelectSeq(SubSeq(g, 8, 13), Came)
    IN  [i \in 1..Len(rel) |-> KbdSendKey(rel[i], 0)]
        \o [i \in 1..Len(prs) |-> KbdSendKey(prs[i], 1)]

\* C12: no ph_cmd_kbd_send_key call carries key code 0, and the events of a
\* keyboard packet are those its nonzero codes and the nonzero stored codes call
\* for: an empty slot, in either snapshot, adds no event and removes none.
C12_ZeroNeverReported ==
    /\ \A i \in 1..Len(sink) :
           sink[i].fn = "ph_cmd_kbd_send_key" => sink[i].args[1] # 0
    /\ KbdDone => sink = EventsOfNonZero(input.parts[1], input.parts[2])

C12_Witness ==
    /\ KbdDone
    /\ SlotCount(input.parts[1], 0) = 0
    /\ SlotCount(input.parts[2], 0) = 5
    /\ Len(sink) = 7
    /\ sink[7].args[2] = 1

\* bit k of a byte
Bit(b, k) == (b \div (2 ^ k)) % 2

\* C13: for each valid mouse frame with payload [buttons, dx, dy, wheel,
\* reserved] the sink gets the button call with bits 0-2 and bits 3-4 of
\* buttons, the motion call with dx and dy unchanged (the same signed 8-bit
\* values, the same bits), and the wheel call with wheel unchanged and 0;
\* buttons 0x09, dx -5, dy 0, wheel 3 give buttons(1, 1), motion(-5, 0),
\* wheel(3, 0).
C13_MouseTranslation ==
    (input.kind = "mouse" /\ AtEnd) =>
        /\ Len(log) = 2
        /\ \A k \in 1..2 :
               LET p == FramePayload(input.parts[k])
                   c == log[k].calls
               IN  /\ Len(c) = 3
                   /\ c[1] = MouseSendButton(
                                 Bit(p[1], 0) + 2 * Bit(p[1], 1) + 4 * Bit(p[1], 2),
                                 Bit(p[1], 3) + 2 * Bit(p[1], 4))
                   /\ c[2].fn = "ph_cmd_mouse_send_rel"
                   /\ c[2].args = <<p[2], p[3]>>
                   /\ S8(c[2].args[1]) = S8(p[2]) /\ S8(c[2].args[2]) = S8(p[3])
                   /\ c[3].fn = "ph_cmd_mouse_send_wheel"
                   /\ c[3].args = <<p[4], 0>>
                   /\ (p[1] = 9 /\ S8(p[2]) = -5 /\ p[3] = 0 /\ p[4] = 3) =>
                          /\ c[1].args = <<1, 1>>
                          /\ <<S8(c[2].args[1]), S8(c[2].args[2])>> = <<-5, 0>>
                          /\ c[3].args = <<3, 0>>

C13_Witness ==
    /\ input.kind = "mouse"
    /\ AtEnd
    /\ FramePayload(input.parts[1]) = <<9, 251, 0, 3, 0>>
    /\ FramePayload(input.parts[2]) = <<233, 128, 128, 255, 170>>
    /\ log[2].calls[1].args = <<1, 1>>

\* C14: every dispatched mouse packet makes exactly three sink calls, button
\* state, then relative motion, then wheel, and no key call, whatever the
\* payload; both frames of a stream of two valid mouse frames are dispatched.
C14_ThreeCallsAlways ==
    /\ \A i \in 1..Len(log) :
           Dispatched(log[i]).cmd = CH_CMD_MOUSE =>
               /\ Len(log[i].calls) = 3
               /\ log[i].calls[1].fn = "ph_cmd_mouse_send_button"
               /\ log[i].calls[2].fn = "ph_cmd_mouse_send_rel"
               /\ log[i].calls[3].fn = "ph_cmd_mouse_send_wheel"
    /\ (input.kind = "mouse" /\ AtEnd) =>
           /\ Len(log) = 2
           /\ Dispatched(log[1]).cmd = CH_CMD_MOUSE
           /\ Dispatched(log[2]).cmd = CH_CMD_MOUSE

C14_Witness ==
    /\ input.kind = "mouse"
    /\ AtEnd
    /\ FramePayload(input.parts[1]) = <<9, 251, 0, 3, 0>>
    /\ FramePayload(input.parts[2]) = <<9, 0, 0, 0, 0>>
    /\ Len(log) = 2
    /\ Len(sink) = 3

\* C15: in every reachable state data_index is at most len and at most 8 and
\* no payload write has fallen outside data[0..7]; in CH_READ_DATA and
\* CH_WAIT_CHECKSUM len is 5 with the mouse command or 8 with the keyboard
\* command.
C15_InFlightInvariant ==
    /\ ch_packet.data_index <= ch_packet.len
    /\ ch_packet.data_index <= 8
    /\ ~overrun
    /\ ch_parser_state \in {CH_READ_DATA, CH_WAIT_CHECKSUM} =>
           \/ ch_packet.cmd = 1 /\ ch_packet.len = 5
           \/ ch_packet.cmd = 2 /\ ch_packet.len = 8

C15_Witness ==
    /\ ch_parser_state = CH_WAIT_CHECKSUM
    /\ ch_packet.cmd = CH_CMD_KEYBOARD
    /\ ch_packet.data_index = 8
    /\ ch_packet.data[7] = CH_HEADER_1
    /\ last = CH_HEADER_1

\* C16: the parser has consumed at most 13 bytes since it last was in
\* CH_WAIT_HEADER_1, the byte that took it out of that state included, so the
\* 13th byte after that one, whatever its value, has it back in
\* CH_WAIT_HEADER_1; it is never stuck in another state.
C16_BackWithinThirteen ==
    /\ Len(consumed) <= 13
    /\ ch_parser_state = CH_WAIT_HEADER_1 <=> consumed = <<>>
    /\ ch_parser_state \in ch_parser_state_t

C16_Witness ==
    /\ Len(consumed) = 13
    /\ ch_parser_state = CH_WAIT_CHECKSUM
    /\ consumed[13] = CH_HEADER_1

\* C17: a step that changes ch_kbd_modifier or ch_kbd_keycodes is the call that
\* consumes the last byte of a well-formed keyboard frame and hands it to the
\* keyboard branch; every other byte leaves the snapshot as it was.
C17_SnapshotFrameCondition ==
    [][ (ch_kbd_modifier' # ch_kbd_modifier \/ ch_kbd_keycodes' # ch_kbd_keycodes) =>
            /\ ch_parser_state = CH_WAIT_CHECKSUM
            /\ WellFormed(Append(consumed, last'))
            /\ consumed[4] = CH_CMD_KEYBOARD
            /\ Len(disp') = 1
            /\ disp'[1].route = "keyboard" ]_vars

C17_Witness ==
    /\ ch_kbd_modifier = CH_HEADER_1
    /\ Len(disp) = 1
    /\ disp[1].route = "keyboard"
    /\ disp[1].data[0] = CH_HEADER_1
    /\ sink = <<>>

\* C18 as stated: whenever the parser is in CH_WAIT_HEADER_1, ch_packet has
\* its initial, all-zero contents.
C18_PacketResetOnReturn ==
    ch_parser_state = CH_WAIT_HEADER_1 => ch_packet = ZeroPacket

\* C18, amended: a step that ends in CH_WAIT_HEADER_1 leaves cmd, len, data
\* and data_index of ch_packet as they were (checksum takes the byte consumed
\* in CH_WAIT_CHECKSUM), so the contents of the last frame stay; and a dispatch
\* hands over the command, the length and the payload bytes consumed since the
\* parser left CH_WAIT_HEADER_1, never a byte of an earlier frame.
C18_PacketKeptButNotRead ==
    [][ /\ ch_parser_state' = CH_WAIT_HEADER_1 =>
               ch_packet' = [ch_packet EXCEPT
                                !.checksum = IF ch_parser_state = CH_WAIT_CHECKSUM
                                             THEN last' ELSE @]
        /\ disp' # <<>> =>
               /\ Len(disp') = 1
               /\ disp'[1].cmd = consumed[4]
               /\ disp'[1].len = consumed[5]
               /\ PayloadOf(disp'[1]) = SubSeq(consumed, 6, Len(consumed)) ]_vars

C18_Witness ==
    /\ ch_parser_state = CH_WAIT_HEADER_1
    /\ ch_packet.cmd = CH_CMD_KEYBOARD
    /\ ch_packet.len = CH_LEN_KEYBOARD
    /\ ch_packet.data_index = 8
    /\ ch_packet.data[3] = CH_HEADER_1
    /\ ch_packet.checksum = last
    /\ disp = <<>>

\* C19: a valid keyboard packet whose six slots hold the same set of codes as
\* the stored snapshot and whose modifier byte differs from the stored one
\* makes no sink call, and afterwards ch_kbd_modifier is the packet's modifier
\* byte.
C19_ModifierChangeIsSilent ==
    ( /\ KbdDone
      /\ Held(input.parts[1]) = Held(input.parts[2])
      /\ input.parts[1][6] # input.parts[2][6] ) =>
        /\ sink = <<>>
        /\ ch_kbd_modifier = input.parts[2][6]

C19_Witness ==
    /\ KbdDone
    /\ Held(input.parts[1]) = {4, 5}
    /\ Held(input.parts[2]) = {4, 5}
    /\ SubSeq(input.parts[1], 8, 13) # SubSeq(input.parts[2], 8, 13)
    /\ input.parts[1][6] = 0
    /\ ch_kbd_modifier = 2
    /\ sink = <<>>

C21_SnapshotReplaced ==
    KbdDone =>
        LET payload == FramePayload(input.parts[2])
        IN  /\ ch_kbd_modifier = payload[1]
            /\ \A i \in 0..5 : ch_kbd_keycodes[i] = payload[3 + i]

C21_Witness ==
    /\ KbdDone
    /\ SubSeq(input.parts[1], 8, 13) = <<4, 5, 6, 4, 5, 6>>
    /\ SubSeq(input.parts[2], 8, 13) = <<0, 6, 0, 0, 0, 6>>
    /\ ch_kbd_keycodes = [i \in 0..5 |-> IF i \in {1, 5} THEN 6 ELSE 0]
    /\ ch_kbd_modifier = 2

\* the byte ch is not the one the header state st expects (cmd: the recorded
\* command)
FramingError(st, ch, cmd) ==
    \/ st = CH_WAIT_HEADER_2 /\ ch # 171
    \/ st = CH_WAIT_CMD_TYPE /\ ch # 0
    \/ st = CH_WAIT_CMD /\ ch \notin {1, 2}
    \/ st = CH_WAIT_LEN /\ ~((cmd = 1 /\ ch = 5) \/ (cmd = 2 /\ ch = 8))

\* C22: in CH_WAIT_HEADER_1 a byte other than 0x57 leaves the state as it is;
\* in CH_WAIT_HEADER_2, CH_WAIT_CMD_TYPE, CH_WAIT_CMD and CH_WAIT_LEN a byte
\* that is not the expected one, 0x57 included, sets the state to
\* CH_WAIT_HEADER_1; in each of these cases no sink call is made, nothing is
\* dispatched and the keyboard snapshot stays as it was.
C22_FramingErrors ==
    [][ LET stays == ch_parser_state = CH_WAIT_HEADER_1 /\ last' # 87
            error == FramingError(ch_parser_state, last', ch_packet.cmd)
        IN  (stays \/ error) =>
                /\ ch_parser_state' = CH_WAIT_HEADER_1
                /\ sink' = <<>>
                /\ disp' = <<>>
                /\ ch_kbd_modifier' = ch_kbd_modifier
                /\ ch_kbd_keycodes' = ch_kbd_keycodes ]_vars

C22_Witness ==
    /\ ch_parser_state = CH_WAIT_HEADER_1
    /\ last = CH_HEADER_1
    /\ consumed = <<>>
    /\ ch_packet.cmd = CH_CMD_MOUSE
    /\ ch_packet.len = 0
    /\ sink = <<>>

\* C23: in CH_READ_DATA every byte, whatever its value, is stored at
\* data[data_index] and data_index grows by one; the state stays CH_READ_DATA
\* until len bytes are stored and then is CH_WAIT_CHECKSUM; there the next
\* byte is taken as the checksum and the state becomes CH_WAIT_HEADER_1. So
\* len + 1 bytes are consumed after the length byte: 5 + len bytes have been
\* consumed when the checksum is awaited.
C23_PayloadNotInterpreted ==
    [][ /\ ch_parser_state = CH_READ_DATA =>
               /\ Len(consumed) = 5 + ch_packet.data_index
               /\ ch_packet.data_index < ch_packet.len
               /\ ch_packet'.data = [ch_packet.data EXCEPT ![ch_packet.data_index] = last']
               /\ ch_packet'.data_index = ch_packet.data_index + 1
               /\ ch_parser_state' = IF ch_packet.data_index + 1 = ch_packet.len
                                     THEN CH_WAIT_CHECKSUM ELSE CH_READ_DATA
               /\ sink' = <<>>
        /\ ch_parser_state = CH_WAIT_CHECKSUM =>
               /\ Len(consumed) = 5 + ch_packet.len
               /\ \A i \in 0..(ch_packet.len - 1) : ch_packet.data[i] = consumed[6 + i]
               /\ ch_packet'.checksum = last'
               /\ ch_packet'.data = ch_packet.data
               /\ ch_parser_state' = CH_WAIT_HEADER_1 ]_vars

C23_Witness ==
    /\ input.kind = "payload"
    /\ AtEnd
    /\ FramePayload(input.parts[1]) =
           <<CH_HEADER_1, CH_HEADER_2, CH_CMD_TYPE, CH_CMD_KEYBOARD,
             CH_LEN_KEYBOARD, 0, 0, 0>>
    /\ ch_parser_state = CH_WAIT_HEADER_1
    /\ Len(log) = 1
    /\ PayloadOf(Dispatched(log[1])) = FramePayload(input.parts[1])

\* the valid frame that differs from f only in the reserved byte, payload[1]
\* of a keyboard frame and payload[4] of a mouse frame, which it has as 0, and
\* in the checksum
ZeroReserved(f) ==
    Frame(FrameCmd(f),
          [FramePayload(f) EXCEPT
              ![IF FrameCmd(f) = CH_CMD_KEYBOARD THEN 2 ELSE 5] = 0])

\* C24: the second frame of a stream gives the sink calls and leaves the
\* snapshot that the frame with reserved byte 0 gives when fed in its place,
\* from the same parser and snapshot state: payload[1] of a keyboard frame and
\* payload[4] of a mouse frame do not reach the output.
C24_ReservedIgnored ==
    (input.kind \in {"reserved", "mouse"} /\ AtEnd) =>
        LET before == RunMachine(InitMachine, input.parts[1])
            twin == ZeroReserved(input.parts[2])
            after == RunMachine(before, twin)
        IN  /\ Len(log) = 2
            /\ log[2].calls = CallsOfRun(before, twin)
            /\ sink = CallsOfRun(before, twin)
            /\ ch_kbd_modifier = after.modifier
            /\ ch_kbd_keycodes = after.keycodes
            /\ ch_parser_state = after.state

C24_Witness ==
    /\ input.kind = "reserved"
    /\ AtEnd
    /\ FramePayload(input.parts[2]) = <<2, 4, 5, 6, 0, 0, 0, 0>>
    /\ sink = <<KbdSendKey(4, 0), KbdSendKey(6, 1)>>
    /\ ch_kbd_keycodes[0] = 5

\* the key codes whose most recent event in a call sequence is a press, given
\* the set pressed before it
RECURSIVE PressedAfter(_, _)
PressedAfter(pressed, calls) ==
    IF calls = <<>> THEN pressed
    ELSE LET c == Head(calls)
             next == IF c.fn # "ph_cmd_kbd_send_key" THEN pressed
                     ELSE IF c.args[2] = 1 THEN pressed \cup {c.args[1]}
                     ELSE pressed \ {c.args[1]}
         IN  PressedAfter(next, Tail(calls))

\* C25: at every point of every stream that starts from the state main()
\* leaves, the key codes whose most recent sink event is a press are the
\* nonzero codes of ch_kbd_keycodes.
C25_SinkMatchesSnapshot ==
    PressedAfter({}, CallsOfLog(log)) = {ch_kbd_keycodes[i] : i \in 0..5} \ {0}

C25_Witness ==
    /\ input.kind = "keys"
    /\ AtEnd
    /\ SubSeq(input.parts[1], 8, 13) = <<4, 4, 0, 0, 0, 0>>
    /\ SubSeq(input.parts[2], 8, 13) = <<5, 4, 0, 0, 0, 0>>
    /\ SubSeq(input.parts[3], 8, 13) = <<0, 0, 0, 0, 6, 5>>
    /\ Len(CallsOfLog(log)) = 5
    /\ PressedAfter({}, CallsOfLog(log)) = {5, 6}

\* C26: a valid keyboard packet makes no sink call exactly when its six slots
\* hold the same set of nonzero codes as the stored snapshot, in whatever slots
\* and with whatever empty slots between them: presence is decided by value
\* over all six slots.
C26_SlotOrderIrrelevant ==
    KbdDone =>
        (Held(input.parts[1]) = Held(input.parts[2]) <=> sink = <<>>)

C26_Witness ==
    /\ KbdDone
    /\ SubSeq(input.parts[1], 8, 13) = <<4, 5, 0, 0, 0, 0>>
    /\ SubSeq(input.parts[2], 8, 13) = <<0, 0, 5, 0, 0, 4>>
    /\ sink = <<>>
    /\ ch_kbd_keycodes[5] = 4

\* C27: the parser of main.c and the one modelled by ParseByte start in the
\* same parser state with the same packet, and from the same state and packet
\* every byte takes both to the same state and packet and makes both invoke
\* their dispatcher, or not, with the same command, length and payload; so
\* over every stream they pass through the same states and packets and
\* dispatch at the same bytes. The dispatcher of main.c makes one report call
\* where the other takes its keyboard or mouse branch.
C27_ParsersAgree ==
    /\ ch_parser_state = MainC_Init.state
    /\ ch_packet = MainC_Init.packet
    /\ [][ LET r == MainC_ParseByte([state |-> ch_parser_state,
                                     packet |-> ch_packet], last')
           IN  /\ r.state = ch_parser_state'
               /\ r.packet = ch_packet'
               /\ Len(r.disp) = Len(disp')
               /\ r.disp # <<>> =>
                      /\ r.disp[1].cmd = disp'[1].cmd
                      /\ r.disp[1].len = disp'[1].len
                      /\ r.disp[1].data = disp'[1].data
                      /\ Len(r.calls) = 1
                      /\ (r.calls[1].fn = "ph_hid_keyboard_report")
                             <=> (disp'[1].route = "keyboard")
                      /\ (r.calls[1].fn = "ph_hid_mouse_report")
                             <=> (disp'[1].route = "mouse") ]_vars

C27_Witness ==
    /\ ch_parser_state = CH_WAIT_HEADER_1
    /\ Len(disp) = 1
    /\ disp[1].route = "mouse"
    /\ disp[1].data[2] = CH_HEADER_1
    /\ ch_packet.checksum = last
    /\ MainC_ProcessPacket(ch_packet) =
           << MainC_MouseReport(0, 0, CH_HEADER_1, 0) >>

====
